---- MODULE Spec2Model ----
(***************************************************************************)
(* Blogicum: the visibility, authorization and pagination rules of         *)
(* blog/views.py, modelled as a state machine over the data store.         *)
(*                                                                         *)
(* A step is one HTTP request handled to completion, a clock tick, or an   *)
(* administrative change of a category.                                    *)
(* `response` records the request just handled and its outcome.            *)
(*                                                                         *)
(* Framework behaviour the handlers rely on (Django 3.2, see the header of *)
(* blog/migrations/0003_auto_20231024_1734.py) is modelled where the       *)
(* handlers invoke it: get_object_or_404, LoginRequiredMixin and           *)
(* login_required, Paginator.get_page, ListView.paginate_queryset.         *)
(*                                                                         *)
(* The views override dispatch themselves, so their lookup and ownership   *)
(* checks run before LoginRequiredMixin.dispatch, which is next in the     *)
(* method resolution order.  blog/mixins.py holds the same dispatch        *)
(* methods, but no view in blog/views.py uses them.                        *)
(*                                                                         *)
(* A post carries the fields the handlers read: author, is_published,      *)
(* pub_date, category.  Primary keys are handed out in sequence and never  *)
(* reused.  Users are identified by their username; the anonymous user has *)
(* the empty username and no id.                                           *)
(***************************************************************************)
EXTENDS Integers, Sequences, FiniteSets, TLC

\* ---- bounds ------------------------------------------------------------
MaxTime == 1
MaxPosts == 1
MaxComments == 1
MaxItems == 21

\* ---- program constants --------------------------------------------------
paginate_by == 10

Users == {"u1", "u2"}
AnonymousUser == ""
Usernames == Users \cup {"nobody"}
Slugs == {"c1"}
SlugParams == Slugs \cup {"missing"}
NoCategory == "null"
Texts == {"", "a", "b"}
FeedPages == {1}
PageNumbers == {0, 1, 2, 3, 9999}

VARIABLES now, queryset_now, categories, posts, comments,
          next_post_id, next_comment_id, response

vars == <<now, queryset_now, categories, posts, comments,
          next_post_id, next_comment_id, response>>

store == <<categories, posts, comments, next_post_id, next_comment_id>>

\* Submitted post forms: every valid combination of the modelled fields, and
\* one body that fails validation.
InvalidPostForm ==
    [valid |-> FALSE, is_published |-> FALSE, pub_date |-> 0,
     category |-> NoCategory]

PostForms ==
    [valid : {TRUE}, is_published : BOOLEAN, pub_date : 0..MaxTime,
     category : Slugs \cup {NoCategory}] \cup {InvalidPostForm}

Resp(op, user, pk, name, page, data, status, location, object_list) ==
    [op |-> op, user |-> user, pk |-> pk, name |-> name, page |-> page,
     data |-> data, status |-> status, location |-> location,
     object_list |-> object_list]

NoResponse == Resp("none", AnonymousUser, 0, "", 0, "", "none", "", <<>>)

Remove(f, k) == [i \in DOMAIN f \ {k} |-> f[i]]

\* ---- querysets ----------------------------------------------------------
\* order_by('-pub_date'); posts of one date are taken in primary-key order.
RECURSIVE order_by(_)
order_by(S) ==
    IF S = {} THEN <<>>
    ELSE LET first == CHOOSE x \in S : \A y \in S :
                         \/ posts[x].pub_date > posts[y].pub_date
                         \/ posts[x].pub_date = posts[y].pub_date /\ x <= y
         IN <<first>> \o order_by(S \ {first})

\* The feed's filter without the is_published condition.
IndexListView_filter_unpublished(id) ==
    /\ posts[id].pub_date <= queryset_now
    /\ posts[id].category # NoCategory
    /\ categories[posts[id].category]

\* The cutoff is the time at which the class body was evaluated; the join on
\* category__is_published leaves out a post without a category.
IndexListView_filter(id) ==
    /\ posts[id].pub_date <= queryset_now
    /\ posts[id].is_published
    /\ posts[id].category # NoCategory
    /\ categories[posts[id].category]

IndexListView_queryset ==
    order_by({id \in DOMAIN posts : IndexListView_filter(id)})

category_posts_post_list(category_slug) ==
    order_by({id \in DOMAIN posts :
                /\ posts[id].category = category_slug
                /\ posts[id].pub_date <= now
                /\ posts[id].is_published})

profile_user_posts(user, username) ==
    order_by({id \in DOMAIN posts :
                /\ posts[id].author = username
                /\ (user # username => posts[id].is_published)})

\* ---- pagination ---------------------------------------------------------
Paginator_num_pages(object_list) ==
    IF Len(object_list) = 0 THEN 1
    ELSE (Len(object_list) + paginate_by - 1) \div paginate_by

Paginator_page(object_list, number) ==
    LET bottom == (number - 1) * paginate_by
        top == IF bottom + paginate_by >= Len(object_list)
               THEN Len(object_list) ELSE bottom + paginate_by
    IN SubSeq(object_list, bottom + 1, top)

Paginator_validate_number(object_list, number) ==
    /\ number >= 1
    /\ number <= Paginator_num_pages(object_list)

Paginator_get_page(object_list, number) ==
    IF Paginator_validate_number(object_list, number)
    THEN Paginator_page(object_list, number)
    ELSE Paginator_page(object_list, Paginator_num_pages(object_list))

\* ---- authentication and lookups ----------------------------------------
is_authenticated(user) == user \in Users

CommentForm_is_valid(text) == text # ""

PostUpdateView_is_author(user, post_id) ==
    posts[post_id].author = user

\* The lookups below without the author condition.
PostDeleteView_get_object_any_author(user, post_id) ==
    post_id \in DOMAIN posts

PostDeleteView_get_object_or_404(user, post_id) ==
    /\ post_id \in DOMAIN posts
    /\ posts[post_id].author = user

CommentUpdateView_get_object_any_author(user, comment_id) ==
    comment_id \in DOMAIN comments

CommentUpdateView_get_object_or_404(user, comment_id) ==
    /\ comment_id \in DOMAIN comments
    /\ comments[comment_id].author = user

CommentDeleteView_get_object_any_author(user, comment_id) ==
    comment_id \in DOMAIN comments

CommentDeleteView_get_object_or_404(user, comment_id) ==
    /\ comment_id \in DOMAIN comments
    /\ comments[comment_id].author = user

PostDetailView_hidden(user, post_id) ==
    /\ ~posts[post_id].is_published
    /\ posts[post_id].author # user

\* The saved comment with the post's author in place of the requester.
add_comment_instance_post_author(user, post_id, text) ==
    [author |-> posts[post_id].author, post |-> post_id, text |-> text]

add_comment_instance(user, post_id, text) ==
    [author |-> user, post |-> post_id, text |-> text]

\* ---- read handlers ------------------------------------------------------
\* ListView.paginate_queryset answers 404 for a page that does not exist.
Index(page) ==
    LET qs == IndexListView_queryset IN
    /\ response' =
         IF Paginator_validate_number(qs, page)
         THEN Resp("index", AnonymousUser, 0, "", page, "", "ok", "",
                   Paginator_page(qs, page))
         ELSE Resp("index", AnonymousUser, 0, "", page, "", "not_found", "",
                   <<>>)
    /\ UNCHANGED <<now, queryset_now, store>>

CategoryPosts(category_slug, page) ==
    /\ response' =
         IF category_slug \in DOMAIN categories /\ categories[category_slug]
         THEN Resp("category_posts", AnonymousUser, 0, category_slug, page,
                   "", "ok", "",
                   Paginator_get_page(
                       category_posts_post_list(category_slug), page))
         ELSE Resp("category_posts", AnonymousUser, 0, category_slug, page,
                   "", "not_found", "", <<>>)
    /\ UNCHANGED <<now, queryset_now, store>>

Profile(user, username, page) ==
    /\ response' =
         IF username \in Users
         THEN Resp("profile", user, 0, username, page, "", "ok", "",
                   Paginator_get_page(
                       profile_user_posts(user, username), page))
         ELSE Resp("profile", user, 0, username, page, "", "not_found", "",
                   <<>>)
    /\ UNCHANGED <<now, queryset_now, store>>

PostDetail(user, post_id) ==
    /\ response' =
         IF post_id \notin DOMAIN posts
         THEN Resp("post_detail", user, post_id, "", 0, "", "not_found", "",
                   <<>>)
         ELSE IF PostDetailView_hidden(user, post_id)
         THEN Resp("post_detail", user, post_id, "", 0, "", "not_found", "",
                   <<>>)
         ELSE Resp("post_detail", user, post_id, "", 0, "", "ok", "",
                   <<post_id>>)
    /\ UNCHANGED <<now, queryset_now, store>>

\* ---- post mutations -----------------------------------------------------
PostCreate(user, form) ==
    /\ (is_authenticated(user) /\ form.valid) => next_post_id <= MaxPosts
    /\ IF ~is_authenticated(user)
       THEN /\ response' = Resp("create_post", user, 0, "", 0, "",
                                "redirect", "login", <<>>)
            /\ UNCHANGED <<posts, next_post_id>>
       ELSE IF form.valid
       THEN /\ posts' = posts @@ (next_post_id :>
                           [author |-> user,
                            is_published |-> form.is_published,
                            pub_date |-> form.pub_date,
                            category |-> form.category])
            /\ next_post_id' = next_post_id + 1
            /\ response' = Resp("create_post", user, next_post_id, user, 0,
                                "", "redirect", "profile", <<>>)
       ELSE /\ response' = Resp("create_post", user, 0, "", 0, "",
                                "ok", "", <<>>)
            /\ UNCHANGED <<posts, next_post_id>>
    /\ UNCHANGED <<now, queryset_now, categories, comments, next_comment_id>>

PostUpdate(user, post_id, form) ==
    /\ IF post_id \notin DOMAIN posts
       THEN /\ response' = Resp("edit_post", user, post_id, "", 0, "",
                                "not_found", "", <<>>)
            /\ UNCHANGED posts
       ELSE IF ~PostUpdateView_is_author(user, post_id)
       THEN /\ response' = Resp("edit_post", user, post_id, "", 0, "",
                                "redirect", "post_detail", <<>>)
            /\ UNCHANGED posts
       ELSE IF ~is_authenticated(user)
       THEN /\ response' = Resp("edit_post", user, post_id, "", 0, "",
                                "redirect", "login", <<>>)
            /\ UNCHANGED posts
       ELSE IF form.valid
       THEN /\ posts' = [posts EXCEPT ![post_id] =
                           [author |-> posts[post_id].author,
                            is_published |-> form.is_published,
                            pub_date |-> form.pub_date,
                            category |-> form.category]]
            /\ response' = Resp("edit_post", user, post_id, "", 0, "",
                                "redirect", "post_detail", <<>>)
       ELSE /\ response' = Resp("edit_post", user, post_id, "", 0, "",
                                "ok", "", <<>>)
            /\ UNCHANGED posts
    /\ UNCHANGED <<now, queryset_now, categories, comments,
                   next_post_id, next_comment_id>>

\* DeleteView deletes on POST; the post's comments go with it.
PostDelete(user, post_id) ==
    /\ IF ~PostDeleteView_get_object_or_404(user, post_id)
       THEN /\ response' = Resp("delete_post", user, post_id, "", 0, "",
                                "not_found", "", <<>>)
            /\ UNCHANGED <<posts, comments>>
       ELSE IF ~is_authenticated(user)
       THEN /\ response' = Resp("delete_post", user, post_id, "", 0, "",
                                "redirect", "login", <<>>)
            /\ UNCHANGED <<posts, comments>>
       ELSE /\ posts' = Remove(posts, post_id)
            /\ comments' = [c \in {d \in DOMAIN comments :
                                     comments[d].post # post_id}
                            |-> comments[c]]
            /\ response' = Resp("delete_post", user, post_id, user, 0, "",
                                "redirect", "profile", <<>>)
    /\ UNCHANGED <<now, queryset_now, categories,
                   next_post_id, next_comment_id>>

\* ---- comment mutations --------------------------------------------------
AddComment(user, post_id, text) ==
    /\ (/\ is_authenticated(user)
        /\ post_id \in DOMAIN posts
        /\ CommentForm_is_valid(text)) => next_comment_id <= MaxComments
    /\ IF ~is_authenticated(user)
       THEN /\ response' = Resp("add_comment", user, post_id, "", 0, text,
                                "redirect", "login", <<>>)
            /\ UNCHANGED <<comments, next_comment_id>>
       ELSE IF post_id \notin DOMAIN posts
       THEN /\ response' = Resp("add_comment", user, post_id, "", 0, text,
                                "not_found", "", <<>>)
            /\ UNCHANGED <<comments, next_comment_id>>
       ELSE /\ IF CommentForm_is_valid(text)
               THEN /\ comments' = comments @@ (next_comment_id :>
                                     add_comment_instance(user, post_id, text))
                    /\ next_comment_id' = next_comment_id + 1
               ELSE UNCHANGED <<comments, next_comment_id>>
            /\ response' = Resp("add_comment", user, post_id, "", 0, text,
                                "redirect", "post_detail", <<>>)
    /\ UNCHANGED <<now, queryset_now, categories, posts, next_post_id>>

CommentUpdate(user, comment_id, text) ==
    /\ IF ~CommentUpdateView_get_object_or_404(user, comment_id)
       THEN /\ response' = Resp("edit_comment", user, comment_id, "", 0,
                                text, "not_found", "", <<>>)
            /\ UNCHANGED comments
       ELSE IF ~is_authenticated(user)
       THEN /\ response' = Resp("edit_comment", user, comment_id, "", 0,
                                text, "redirect", "login", <<>>)
            /\ UNCHANGED comments
       ELSE IF CommentForm_is_valid(text)
       THEN /\ comments' = [comments EXCEPT ![comment_id].text = text]
            /\ response' = Resp("edit_comment", user, comment_id, user, 0,
                                text, "redirect", "profile", <<>>)
       ELSE /\ response' = Resp("edit_comment", user, comment_id, "", 0,
                                text, "ok", "", <<>>)
            /\ UNCHANGED comments
    /\ UNCHANGED <<now, queryset_now, categories, posts,
                   next_post_id, next_comment_id>>

CommentDelete(user, comment_id) ==
    /\ IF ~CommentDeleteView_get_object_or_404(user, comment_id)
       THEN /\ response' = Resp("delete_comment", user, comment_id, "", 0,
                                "", "not_found", "", <<>>)
            /\ UNCHANGED comments
       ELSE IF ~is_authenticated(user)
       THEN /\ response' = Resp("delete_comment", user, comment_id, "", 0,
                                "", "redirect", "login", <<>>)
            /\ UNCHANGED comments
       ELSE /\ comments' = Remove(comments, comment_id)
            /\ response' = Resp("delete_comment", user, comment_id, user, 0,
                                "", "redirect", "profile", <<>>)
    /\ UNCHANGED <<now, queryset_now, categories, posts,
                   next_post_id, next_comment_id>>

\* ---- environment --------------------------------------------------------
Tick ==
    /\ now < MaxTime
    /\ now' = now + 1
    /\ response' = NoResponse
    /\ UNCHANGED <<queryset_now, store>>

AdminSetCategoryPublished(slug, flag) ==
    /\ categories[slug] # flag
    /\ categories' = [categories EXCEPT ![slug] = flag]
    /\ response' = NoResponse
    /\ UNCHANGED <<now, queryset_now, posts, comments,
                   next_post_id, next_comment_id>>

\* ---- specifications -----------------------------------------------------
Init ==
    /\ now = 0
    /\ queryset_now = 0
    /\ categories = [s \in Slugs |-> TRUE]
    /\ posts = [i \in {} |-> 0]
    /\ comments = [i \in {} |-> 0]
    /\ next_post_id = 1
    /\ next_comment_id = 1
    /\ response = NoResponse

Viewers == Users \cup {AnonymousUser}

\* A request body is bound to the form only after dispatch lets the request
\* through; for a request that is turned away one body stands for all.
PostCreateBodies(user) ==
    IF is_authenticated(user) THEN PostForms ELSE {InvalidPostForm}

PostUpdateBodies(user, post_id) ==
    IF post_id \in DOMAIN posts /\ posts[post_id].author = user
    THEN PostForms ELSE {InvalidPostForm}

Next ==
    \/ \E page \in FeedPages : Index(page)
    \/ \E slug \in SlugParams, page \in FeedPages : CategoryPosts(slug, page)
    \/ \E user \in Viewers, username \in Usernames, page \in FeedPages :
          Profile(user, username, page)
    \/ \E user \in Viewers, post_id \in 1..MaxPosts : PostDetail(user, post_id)
    \/ \E user \in Viewers : \E form \in PostCreateBodies(user) :
          PostCreate(user, form)
    \/ \E user \in Viewers, post_id \in 1..MaxPosts :
          \E form \in PostUpdateBodies(user, post_id) :
             PostUpdate(user, post_id, form)
    \/ \E user \in Viewers, post_id \in 1..MaxPosts : PostDelete(user, post_id)
    \/ \E user \in Viewers, post_id \in 1..MaxPosts, text \in Texts :
          AddComment(user, post_id, text)
    \/ \E user \in Viewers, comment_id \in 1..MaxComments, text \in Texts :
          CommentUpdate(user, comment_id, text)
    \/ \E user \in Viewers, comment_id \in 1..MaxComments :
          CommentDelete(user, comment_id)
    \/ Tick
    \/ \E slug \in Slugs, flag \in BOOLEAN :
          AdminSetCategoryPublished(slug, flag)

Spec == Init /\ [][Next]_vars

\* The listings and the post detail page read posts, categories and the clock
\* only, never comments: the requests that can change what they show.
NextListing ==
    \/ \E page \in FeedPages : Index(page)
    \/ \E slug \in SlugParams, page \in FeedPages : CategoryPosts(slug, page)
    \/ \E user \in Viewers, username \in Usernames, page \in FeedPages :
          Profile(user, username, page)
    \/ \E user \in Viewers, post_id \in 1..MaxPosts : PostDetail(user, post_id)
    \/ \E user \in Viewers : \E form \in PostCreateBodies(user) :
          PostCreate(user, form)
    \/ \E user \in Viewers, post_id \in 1..MaxPosts :
          \E form \in PostUpdateBodies(user, post_id) :
             PostUpdate(user, post_id, form)
    \/ \E user \in Viewers, post_id \in 1..MaxPosts : PostDelete(user, post_id)
    \/ Tick
    \/ \E slug \in Slugs, flag \in BOOLEAN :
          AdminSetCategoryPublished(slug, flag)

SpecListing == Init /\ [][NextListing]_vars

\* A store of n published posts of one author in one published category,
\* on which the three listings are paged.
InitPaginate ==
    /\ now = 0
    /\ queryset_now = 0
    /\ categories = [s \in Slugs |-> TRUE]
    /\ \E n \in 0..MaxItems :
          /\ posts = [i \in 1..n |->
                        [author |-> "u1", is_published |-> TRUE,
                         pub_date |-> 0, category |-> "c1"]]
          /\ next_post_id = n + 1
    /\ comments = [i \in {} |-> 0]
    /\ next_comment_id = 1
    /\ response = NoResponse

NextPaginate ==
    \/ \E page \in PageNumbers : Index(page)
    \/ \E slug \in SlugParams, page \in PageNumbers :
          CategoryPosts(slug, page)
    \/ \E user \in Viewers, username \in Usernames, page \in PageNumbers :
          Profile(user, username, page)

SpecPaginate == InitPaginate /\ [][NextPaginate]_vars

TypeOK ==
    /\ now \in 0..MaxTime
    /\ queryset_now \in 0..now
    /\ DOMAIN posts \subseteq 1..(next_post_id - 1)
    /\ DOMAIN comments \subseteq 1..(next_comment_id - 1)
    /\ \A c \in DOMAIN comments : comments[c].post \in DOMAIN posts

\* ---- the specification's predicates -------------------------------------
Items(object_list) == {object_list[i] : i \in DOMAIN object_list}

IsPubliclyVisible(id, t) ==
    /\ posts[id].is_published
    /\ posts[id].pub_date <= t
    /\ (posts[id].category = NoCategory \/ categories[posts[id].category])

IsVisibleTo(id, viewer, t) ==
    viewer = posts[id].author \/ IsPubliclyVisible(id, t)

MutatingOps == {"create_post", "edit_post", "delete_post",
                "add_comment", "edit_comment", "delete_comment"}

\* The request just handled was made by an authenticated user on an existing
\* post (comment) of another author; read across a step, on the store before.
NonAuthorOnPost ==
    /\ response'.user \in Users
    /\ response'.pk \in DOMAIN posts
    /\ posts[response'.pk].author # response'.user

NonAuthorOnComment ==
    /\ response'.user \in Users
    /\ response'.pk \in DOMAIN comments
    /\ comments[response'.pk].author # response'.user

\* ---- claims -------------------------------------------------------------

\* C1: no page of the global feed holds a post that is unpublished, dated
\* after the request time, or in an unpublished category.
C1_FeedHidesNonPublic ==
    response.op = "index" =>
        \A id \in Items(response.object_list) :
            /\ posts[id].is_published
            /\ posts[id].pub_date <= now
            /\ ~(posts[id].category # NoCategory
                 /\ ~categories[posts[id].category])

\* The feed was served while an unpublished post, otherwise eligible, exists.
C1_Witness ==
    /\ response.op = "index"
    /\ response.status = "ok"
    /\ \E id \in DOMAIN posts :
          /\ ~posts[id].is_published
          /\ posts[id].pub_date <= queryset_now
          /\ posts[id].category # NoCategory
          /\ categories[posts[id].category]

\* C2: post detail answers NotFound exactly when the post does not exist or
\* is not visible to the viewer (author, or publicly visible at request time).
C2_DetailNotFoundIffNotVisible ==
    response.op = "post_detail" =>
        (response.status = "not_found" <=>
            \/ response.pk \notin DOMAIN posts
            \/ ~IsVisibleTo(response.pk, response.user, now))

\* C3: a profile served to someone else holds only publicly visible posts; a
\* profile served to its owner holds all of the owner's posts.
C3_ProfileVisibility ==
    (response.op = "profile" /\ response.status = "ok") =>
        IF response.user # response.name
        THEN \A id \in Items(response.object_list) :
                IsPubliclyVisible(id, now)
        ELSE Items(response.object_list) =
                {id \in DOMAIN posts : posts[id].author = response.name}

\* C4: every post publicly visible at request time is in the global feed,
\* however long the server process has been running.
C4_FeedHoldsEveryPublic ==
    (response.op = "index" /\ response.page = 1) =>
        \A id \in DOMAIN posts :
            IsPubliclyVisible(id, now) => id \in Items(response.object_list)

\* C5: an edit or delete of a post requested by an authenticated user who is
\* not its author leaves posts and comments as they were.
C5_NonAuthorPostRequestKeepsStore ==
    [][(response'.op \in {"edit_post", "delete_post"} /\ NonAuthorOnPost)
          => (posts' = posts /\ comments' = comments)]_vars

\* A non-author's edit or delete was handled on a post that carries a comment.
C5_Witness ==
    /\ response.op \in {"edit_post", "delete_post"}
    /\ response.user \in Users
    /\ response.pk \in DOMAIN posts
    /\ posts[response.pk].author # response.user
    /\ \E c \in DOMAIN comments : comments[c].post = response.pk

\* C6: every mutating operation requested anonymously is answered by a
\* redirect to the login page, never NotFound, never the post detail page.
C6_AnonymousMutationRedirectsToLogin ==
    (response.op \in MutatingOps /\ response.user = AnonymousUser) =>
        (response.status = "redirect" /\ response.location = "login")

\* The whole result set the listing just served was paged from.
ListingResultSet ==
    CASE response.op = "index" -> IndexListView_queryset
      [] response.op = "category_posts" ->
            category_posts_post_list(response.name)
      [] response.op = "profile" ->
            profile_user_posts(response.user, response.name)

LastPageNumber(object_list) ==
    IF Len(object_list) <= paginate_by THEN 1
    ELSE IF Len(object_list) % paginate_by = 0
    THEN Len(object_list) \div paginate_by
    ELSE Len(object_list) \div paginate_by + 1

LastPageItems(object_list) ==
    [i \in 1..(Len(object_list)
                - (LastPageNumber(object_list) - 1) * paginate_by)
       |-> object_list[(LastPageNumber(object_list) - 1) * paginate_by + i]]

ListingFound ==
    \/ response.op = "index"
    \/ response.op = "category_posts" /\ response.name \in Slugs
          /\ categories[response.name]
    \/ response.op = "profile" /\ response.name \in Users

\* C7: in all three listings a page number beyond the last page is never an
\* error and yields the last page; no page holds more than 10 posts.
C7_BeyondLastPageClamps ==
    ListingFound =>
        /\ Len(response.object_list) <= 10
        /\ response.page > LastPageNumber(ListingResultSet) =>
              /\ response.status = "ok"
              /\ response.object_list = LastPageItems(ListingResultSet)

\* C8: an authenticated user's edit or delete of another author's comment is
\* answered NotFound, as for an unknown comment id, and the comment stays
\* as it was.
C8_NonAuthorCommentRequestNotFound ==
    [][(response'.op \in {"edit_comment", "delete_comment"}
           /\ response'.user \in Users)
          => /\ NonAuthorOnComment =>
                   /\ response'.status = "not_found"
                   /\ response'.pk \in DOMAIN comments'
                   /\ comments'[response'.pk] = comments[response'.pk]
             /\ response'.pk \notin DOMAIN comments =>
                   response'.status = "not_found"]_vars

\* A non-author's edit or delete of an existing comment was answered NotFound.
C8_Witness ==
    /\ response.op \in {"edit_comment", "delete_comment"}
    /\ response.user \in Users
    /\ response.pk \in DOMAIN comments
    /\ comments[response.pk].author # response.user
    /\ response.status = "not_found"

\* C9 as claimed: denied to an authenticated non-author, edit and delete of a
\* post both redirect to the post's detail page, edit and delete of a comment
\* both answer NotFound.
C9_PostDenialsRedirect ==
    [][/\ (response'.op \in {"edit_post", "delete_post"} /\ NonAuthorOnPost)
            => (response'.status = "redirect"
                /\ response'.location = "post_detail")
       /\ (response'.op \in {"edit_comment", "delete_comment"}
             /\ NonAuthorOnComment)
            => response'.status = "not_found"]_vars

\* C9 (amended): denied to an authenticated non-author, edit of a post
\* redirects to the post's detail page without error; delete of a post, and
\* edit and delete of a comment, answer NotFound.
C9_EditRedirectsDeleteNotFound ==
    [][/\ (response'.op = "edit_post" /\ NonAuthorOnPost)
            => (response'.status = "redirect"
                /\ response'.location = "post_detail")
       /\ (response'.op = "delete_post" /\ NonAuthorOnPost)
            => response'.status = "not_found"
       /\ (response'.op \in {"edit_comment", "delete_comment"}
             /\ NonAuthorOnComment)
            => response'.status = "not_found"]_vars

\* A non-author's delete of an existing post was answered NotFound.
C9_Witness ==
    /\ response.op = "delete_post"
    /\ response.user \in Users
    /\ response.pk \in DOMAIN posts
    /\ posts[response.pk].author # response.user
    /\ response.status = "not_found"

\* C10: an authenticated add-comment on an existing post, visible to the
\* caller or not, redirects to the post detail page; with valid text it adds
\* exactly one comment, by the caller, on that post, and with invalid text it
\* changes nothing.  On a missing post it answers NotFound and adds nothing.
C10_AddComment ==
    [][(response'.op = "add_comment" /\ response'.user \in Users) =>
          /\ posts' = posts
          /\ IF response'.pk \in DOMAIN posts
             THEN /\ response'.status = "redirect"
                  /\ response'.location = "post_detail"
                  /\ IF response'.data # ""
                     THEN \E c \in DOMAIN comments' \ DOMAIN comments :
                            /\ DOMAIN comments' = DOMAIN comments \cup {c}
                            /\ comments'[c].author = response'.user
                            /\ comments'[c].post = response'.pk
                            /\ comments'[c].text = response'.data
                            /\ \A d \in DOMAIN comments :
                                  comments'[d] = comments[d]
                     ELSE comments' = comments
             ELSE /\ response'.status = "not_found"
                  /\ comments' = comments]_vars

\* A comment was added to a post that its author cannot see.
C10_Witness ==
    /\ response.op = "add_comment"
    /\ response.status = "redirect"
    /\ response.pk \in DOMAIN posts
    /\ ~IsVisibleTo(response.pk, response.user, now)
    /\ \E c \in DOMAIN comments :
          /\ comments[c].post = response.pk
          /\ comments[c].author = response.user
          /\ comments[c].text = response.data

====
